---- MODULE Spec2Model ----
(***************************************************************************)
(* The generation client of marchdigital/imagegen: the route guards, the   *)
(* payload builders and the submit / poll / fetch protocol of              *)
(* backend/providers/fal_ai_extended.py, the direct (synchronous) provider *)
(* of backend/providers/fal_ai.py and the first provider of               *)
(* fal-provider.py, against a remote service whose answers are chosen      *)
(* nondeterministically.                                                   *)
(***************************************************************************)
EXTENDS Integers, Sequences, FiniteSets, TLC

\* ---------------------------------------------------------------- bounds
\* Number of request slots of the model.
NumRequests == 2
\* Number of distinct response bodies the service may send.
MaxBody == 2
\* Last second of the clock the gallery reads.
MaxNow == 1
\* Largest number of input images of one request.
MaxImages == 2
\* Largest number of entries of an `images` array in a response.
MaxOut == 2

\* Number of times validate_parameters is applied to its own result.
MaxCalls == 2

\* ------------------------------------------------------ program constants
\* max_attempts = 60 (the poll budget of _submit_request).
max_attempts == 60

None == "None"
Reqs == 1..NumRequests
BodyTags == 1..MaxBody

\* The operations of the extended (queue) provider, reached through the
\* routes of backend/api/generation_extended.py.
ExtendedOps == {"wan25_preview", "qwen_edit", "product_shots"}

\* The operations of the direct provider (backend/providers/fal_ai.py).
DirectOps == {"generate", "product_shoot"}

\* The operation of the first provider (fal-provider.py).
LegacyOps == {"generate_image"}

Ops == ExtendedOps \cup DirectOps \cup LegacyOps

VARIABLES
    apiKey,           \* TRUE iff FAL_API_KEY is configured in the environment
    pc,               \* pc[r]: where request r's task stands
    op,               \* op[r]: the operation request r asks for
    payload,          \* payload[r]: the JSON body built for the submit call
    request_id,       \* request_id[r]: the id read from the submit response
    attempt,          \* attempt[r]: the loop variable of the poll loop
    submit_response,  \* submit_response[r]: the response to the submit call
    status_response,  \* status_response[r]: the response to the last status call
    result_response,  \* result_response[r]: the response to the result fetch
    result,           \* result[r]: the value returned to the caller
    error,            \* error[r]: the exception raised to the caller
    calls,            \* calls[r]: how many submit/status/result calls r issued
    lastCall,         \* lastCall[r]: the kind of the last call r issued
    polls_ok,         \* polls_ok[r]: every status call so far was answered 200 with a JSON body
    job,              \* job[r]: the service's side of r's queued job
    image_url,        \* image_url[r]: the URL generate_image (fal-provider.py) downloads
    inputs,           \* inputs[r]: the arguments r's payload is being built from
    validated,        \* the parameters validate_parameters is applied to, and its result
    service,          \* the jobs the remote service may run for a queued request
    converted,        \* the ImageInput to_fal_format is applied to, and its result
    metadata,         \* GalleryManager.metadata['images'], newest entry first
    files,            \* files[f]: what was written to storage/images/f, in order
    saves,            \* saves[t]: where save_image call t stands, and its locals
    now               \* datetime.now(), in seconds

vars == <<apiKey, pc, op, payload, request_id, attempt, submit_response,
          status_response, result_response, result, error, calls, lastCall,
          polls_ok, job, image_url, inputs, validated, service,
          converted, metadata, files, saves, now>>

\* The state of to_fal_format and of the gallery.
storeVars == <<converted, metadata, files, saves, now>>

\* The state only the poll loop of _submit_request touches.
queueVars == <<request_id, attempt, status_response, result_response, polls_ok, job>>

\* ------------------------------------------------------------ HTTP values
\* A JSON object body; an absent key is None (NoId for request_id).  tag tells
\* bodies apart.
JsonObj(rid, status, err, tag) ==
    [request_id |-> rid, status |-> status, error |-> err, tag |-> tag]

NoBody == JsonObj(0, None, None, 0)


\* A call's outcome: no response at all (a transport error), or an HTTP
\* response with a status code and a body that parses as JSON or does not.
Resp(kind, code, json, body) ==
    [kind |-> kind, code |-> code, json |-> json, body |-> body]

NoResp == Resp("none", 0, FALSE, NoBody)
TransportFailure == Resp("transport", 0, FALSE, NoBody)
Http(code, body) == Resp("http", code, TRUE, body)
HttpText(code) == Resp("http", code, FALSE, NoBody)

SuccessCodes == {200, 202}
FailureCodes == {404, 500}
HttpCodes == SuccessCodes \cup FailureCodes

\* httpx: Response.is_success, the test behind raise_for_status().
IsSuccess(code) == code >= 200 /\ code <= 299

\* The identifier the service gives the job of request r; 0 stands for a
\* missing (or otherwise falsy) request_id.
IdOf(r) == r
NoId == 0

min(a, b) == IF a <= b THEN a ELSE b
max(a, b) == IF a >= b THEN a ELSE b

\* ------------------------------------------------------------- exceptions
Err(type, code, msg) == [type |-> type, code |-> code, msg |-> msg, embedded |-> 0]

\* The exception e with n characters of the upstream response's text in its
\* message.
Embeds(e, n) == [e EXCEPT !.embedded = n]
NoError == Err("none", 0, <<>>)

Contains(msg, x) == \E i \in DOMAIN msg : msg[i] = x

\* ---------------------------------------------------------------- payload
NoPayload == [none |-> TRUE]
NoInputs == [none |-> TRUE]

\* The bytes of an uploaded image, and the lists of them a request may carry.
ImageBytes == {"imgA"}
ImageLists == UNION {[1..n -> ImageBytes] : n \in 0..MaxImages}

\* Sample values of an integer width or height.
SizeValues == {64, 1000, 1024, 1025, 2048, 4096}

\* output_size as the route receives it: "WxH", or a string int() rejects.
OutputSizes ==
    {[valid |-> TRUE, w |-> w, h |-> h] : w \in SizeValues, h \in SizeValues}
    \cup {[valid |-> FALSE, w |-> 0, h |-> 0]}

\* generate_wan25_preview: the aspect_ratios table.
aspect_ratios ==
    ("1:1" :> <<1024, 1024>>) @@ ("16:9" :> <<1920, 1080>>)
    @@ ("9:16" :> <<1080, 1920>>) @@ ("4:3" :> <<1024, 768>>)
    @@ ("3:2" :> <<1152, 768>>)

AspectRatios == DOMAIN aspect_ratios \cup {"original", "21:9"}

\* seed: Optional[int]; not given, or an integer.
Seeds ==
    {[given |-> FALSE, value |-> 0]}
    \cup {[given |-> TRUE, value |-> v] : v \in {-1, 0, 42}}

\* Python truthiness of an Optional[int].
Truthy(seed) == seed.given /\ seed.value # 0

\* generate_wan25_preview: the payload for a parsed output_size.
Wan25Payload(size, aspect_ratio, refs, seed) ==
    LET dims == IF aspect_ratio # "original" /\ aspect_ratio \in DOMAIN aspect_ratios
                THEN aspect_ratios[aspect_ratio]
                ELSE <<size.w, size.h>>
        base == [prompt |-> "a cat", image |-> "imgA",
                 width |-> dims[1], height |-> dims[2]]
        withRefs == IF Len(refs) > 0
                    THEN base @@ [reference_images |-> refs] ELSE base
    IN  IF Truthy(seed) /\ seed.value # -1
        THEN withRefs @@ [seed |-> seed.value] ELSE withRefs

\* edit_with_qwen: the edit_params table.
edit_params ==
    ("object_removal" :> [inpaint_mode |-> "remove", edge_blend |-> "0.2"])
    @@ ("object_replacement" :> [inpaint_mode |-> "replace", context_aware |-> TRUE])
    @@ ("background_change" :> [segment_mode |-> "background", blend_edges |-> TRUE])
    @@ ("style_transfer" :> [style_preservation |-> "0.3", content_preservation |-> "0.7"])
    @@ ("color_adjustment" :> [color_mode |-> "adaptive", preserve_luminance |-> TRUE])

EditTypes == DOMAIN edit_params \cup {"auto", "sharpen"}

\* edit_with_qwen: the payload before the edit type's fields are merged in.
QwenBase(edit_type, mask) ==
    LET base == [image |-> "imgA", prompt |-> "make it red",
                 text_prompt |-> "make it red", instruction |-> "make it red",
                 edit_mode |-> edit_type, strength |-> "0.8",
                 coherence_factor |-> "0.9", auto_detect_region |-> TRUE,
                 preserve_original_style |-> FALSE]
    IN  IF mask # None THEN base @@ [mask |-> mask] ELSE base

\* dict.update: the keys of d replace those of p.
Update(p, d) == d @@ p

\* A lookup that falls back to the first entry of the table.
QwenPayloadDefaulting(edit_type, mask) ==
    Update(QwenBase(edit_type, mask),
           edit_params[IF edit_type \in DOMAIN edit_params
                       THEN edit_type ELSE "object_removal"])

\* edit_with_qwen: the payload.
QwenPayload(edit_type, mask) ==
    IF edit_type \in DOMAIN edit_params
    THEN Update(QwenBase(edit_type, mask), edit_params[edit_type])
    ELSE QwenBase(edit_type, mask)

\* generate_product_shots: the format_dimensions table.
format_dimensions ==
    ("square" :> <<1024, 1024>>) @@ ("portrait" :> <<768, 1024>>)
    @@ ("landscape" :> <<1024, 768>>) @@ ("banner" :> <<1920, 1080>>)
    @@ ("story" :> <<1080, 1920>>)

OutputFormats == DOMAIN format_dimensions \cup {"poster"}
Resolutions == {"1024", "1920", "3840", "512"}

\* A scale that follows the number in the resolution: 512 halves the size.
ScaleByNumber(resolution) ==
    IF resolution = "1920" THEN <<15, 8>>
    ELSE IF resolution = "3840" THEN <<15, 4>>
    ELSE IF resolution = "512" THEN <<1, 2>>
    ELSE <<1, 1>>

\* generate_product_shots: scale as the fraction <<numerator, denominator>>
\* (1.875 = 15/8 and 3.75 = 15/4 are exact as floats).
Scale(resolution) ==
    IF resolution = "1920" THEN <<15, 8>>
    ELSE IF resolution = "3840" THEN <<15, 4>>
    ELSE <<1, 1>>

\* int(x * scale) for x >= 0.
Scaled(x, scale) == (x * scale[1]) \div scale[2]

\* generate_product_shots: the output size.
ProductDims(output_format, resolution) ==
    LET base == IF output_format \in DOMAIN format_dimensions
                THEN format_dimensions[output_format]
                ELSE <<1024, 1024>>
    IN  <<Scaled(base[1], Scale(resolution)), Scaled(base[2], Scale(resolution))>>

\* generate_product_shots: the payload.
ProductShotsPayload(product_images, output_format, resolution) ==
    LET dims == ProductDims(output_format, resolution)
    IN  [product_images |-> product_images,
         category |-> "shoes", description |-> "red shoes",
         output |-> [width |-> dims[1], height |-> dims[2],
                     format |-> "png", quality |-> 95]]

\* FalAIProvider.generate (fal_ai.py): the payload.
GeneratePayload(width, height, seed) ==
    LET base == [prompt |-> "a cat",
                 image_size |-> [width |-> width, height |-> height],
                 num_inference_steps |-> 4, guidance_scale |-> "7.5",
                 num_images |-> 1]
    IN  IF seed.given /\ seed.value # -1
        THEN base @@ [seed |-> seed.value] ELSE base

\* FalAIProvider.generate_product_shoot (fal_ai.py): the payload, built from
\* the compressed first product image.
ProductShootPayload(compressed_image) ==
    [product_image |-> <<"data:image/jpeg;base64,", compressed_image>>,
     scene |-> "studio", product_placement |-> "center",
     product_description |-> "red shoes"]

\* The model families _build_payload (fal-provider.py) tells apart by
\* substring.
ModelFamilies == {"flux", "sdxl", "other"}

\* FalAIProvider._build_payload (fal-provider.py).
BuildPayload(family, width, height, seed) ==
    LET base == [prompt |-> "a cat",
                 image_size |-> [width |-> width, height |-> height]]
        params == IF family = "flux"
                  THEN base @@ [num_inference_steps |-> 20, guidance_scale |-> "7.5"]
                  ELSE IF family = "sdxl"
                  THEN base @@ [num_inference_steps |-> 20, guidance_scale |-> "7.5",
                                enable_safety_checker |-> FALSE]
                  ELSE base
    IN  IF family \in {"flux", "sdxl"} /\ Truthy(seed) /\ seed.value # -1
        THEN params @@ [seed |-> seed.value] ELSE params

\* ------------------------------------------------------------ the service
NonTerminalStatuses == {"PENDING", "IN_PROGRESS", "UNKNOWN", None}
ErrTexts == {"x", None}

\* What becomes of a queued job: it completes or fails from the at-th status
\* call on, or does neither within the client's budget.  A job may complete
\* at any call of the budget; the failing jobs fail at its first calls or at
\* its last.
FailAt == {1, 2, max_attempts}

Jobs ==
    {[outcome |-> "NEVER", at |-> 0, error |-> None]}
    \cup {[outcome |-> "COMPLETED", at |-> n, error |-> None] : n \in 1..max_attempts}
    \cup {[outcome |-> "FAILED", at |-> n, error |-> e] : n \in FailAt, e \in ErrTexts}

NoJob == [outcome |-> "none", at |-> 0, error |-> None]

\* The answers to the submit call.
SubmitResponses(r) ==
    {TransportFailure}
    \cup {HttpText(c) : c \in HttpCodes}
    \cup {Http(c, JsonObj(NoId, None, None, t)) : c \in SuccessCodes, t \in BodyTags}
    \cup {Http(200, JsonObj(IdOf(r), None, None, 1))}

\* The status the service reports for job j at its k-th status call.
ServiceStatus(j, k) ==
    IF j.outcome \in {"COMPLETED", "FAILED"} /\ k >= j.at
    THEN {JsonObj(NoId, j.outcome, IF j.outcome = "FAILED" THEN j.error ELSE None, 1)}
    ELSE {JsonObj(NoId, s, None, 1) : s \in NonTerminalStatuses}

\* The answers to the k-th status call for job j: the service's report, or a
\* fault (no answer, a code other than 200, a body that is not JSON).
StatusResponses(j, k) ==
    {Http(200, b) : b \in ServiceStatus(j, k)}
    \cup {TransportFailure, HttpText(200), HttpText(202), HttpText(500)}
    \cup {Http(202, JsonObj(NoId, "IN_PROGRESS", None, 1))}

\* The answers to the result fetch.
FetchResponses ==
    {TransportFailure}
    \cup {HttpText(c) : c \in {200, 500}}
    \cup {Http(c, JsonObj(NoId, None, None, t)) : c \in {200, 500}, t \in BodyTags}

\* One entry of a response's image fields: a URL string, an object with a
\* url, or an object without one.
Urls == {"http://x/1.png", "http://x/2.png"}
Entries ==
    {[form |-> f, url |-> u] : f \in {"str", "obj"}, u \in Urls}
    \cup {[form |-> "obj", url |-> None]}
NoEntry == [form |-> "none", url |-> None]
EntryLists == UNION {[1..n -> Entries] : n \in 0..MaxOut}

\* The body of a direct (synchronous) response: an `images` array and a
\* singular `image` field, each present or not.
ImgBody(has_images, images, has_image, image) ==
    [has_images |-> has_images, images |-> images,
     has_image |-> has_image, image |-> image]

ImgBodies ==
    {ImgBody(FALSE, <<>>, FALSE, NoEntry)}
    \cup {ImgBody(TRUE, l, FALSE, NoEntry) : l \in EntryLists}
    \cup {ImgBody(FALSE, <<>>, TRUE, e) : e \in Entries}
    \cup {ImgBody(TRUE, l, TRUE, e) : l \in {<<>>} \cup {<<x>> : x \in Entries}, e \in Entries}

\* The answers to a direct POST.
DirectResponses ==
    {TransportFailure}
    \cup {HttpText(c) : c \in {200, 500}}
    \cup {Http(c, ImgBody(FALSE, <<>>, FALSE, NoEntry)) : c \in {202, 404, 500}}
    \cup {Http(200, b) : b \in ImgBodies}

\* The answers to the download of an image URL.
DownloadResponses == {TransportFailure, HttpText(200), HttpText(404)}

\* ------------------------------------------------------------------- Init
InitRequest(o) ==
    /\ pc = [r \in Reqs |-> IF r = 1 THEN "NEW" ELSE "IDLE"]
    /\ op = [r \in Reqs |-> IF r = 1 THEN o ELSE None]
    /\ payload = [r \in Reqs |-> NoPayload]
    /\ request_id = [r \in Reqs |-> 0]
    /\ attempt = [r \in Reqs |-> 0]
    /\ submit_response = [r \in Reqs |-> NoResp]
    /\ status_response = [r \in Reqs |-> NoResp]
    /\ result_response = [r \in Reqs |-> NoResp]
    /\ result = [r \in Reqs |-> NoBody]
    /\ error = [r \in Reqs |-> NoError]
    /\ calls = [r \in Reqs |-> [submit |-> 0, status |-> 0, result |-> 0, download |-> 0]]
    /\ lastCall = [r \in Reqs |-> None]
    /\ polls_ok = [r \in Reqs |-> TRUE]
    /\ job = [r \in Reqs |-> NoJob]
    /\ image_url = [r \in Reqs |-> None]
    /\ inputs = [r \in Reqs |-> NoInputs]

\* No call of validate_parameters is under way.
NoParams == [given |-> <<0, 0>>, width |-> 0, height |-> 0, calls |-> 0]

\* No call of to_fal_format is under way.
NoConversion == [image |-> None, out |-> None, calls |-> 0]

\* The save_image calls.
Saves == 1..NumRequests

\* A save_image call that has not started.
NoSave == [pc |-> "IDLE", filename |-> <<>>, image_data |-> None]

\* A new GalleryManager with no metadata file, and nothing to convert.
NoStore ==
    /\ converted = NoConversion
    /\ metadata = <<>>
    /\ files = <<>>
    /\ saves = [t \in Saves |-> NoSave]
    /\ now = 0

Init ==
    /\ apiKey \in BOOLEAN
    /\ \E o \in Ops : InitRequest(o)
    /\ validated = NoParams
    /\ service = Jobs
    /\ NoStore

\* -------------------------------------------------------------- helpers
Terminal(r) == pc[r] \in {"COMPLETED", "FAILED", "TIMED_OUT"}

Called(r, kind) ==
    /\ calls' = [calls EXCEPT ![r][kind] = @ + 1]
    /\ lastCall' = [lastCall EXCEPT ![r] = kind]

\* The request ends with exception e raised to the caller.
Raise(r, e) ==
    /\ pc' = [pc EXCEPT ![r] = IF e.type = "TimeoutError" THEN "TIMED_OUT" ELSE "FAILED"]
    /\ error' = [error EXCEPT ![r] = e]

\* The request ends with value v returned to the caller.
Return(r, v) ==
    /\ pc' = [pc EXCEPT ![r] = "COMPLETED"]
    /\ result' = [result EXCEPT ![r] = v]

\* ------------------------------------------- routes of the extended provider
\* A guard that lets every request through.
KeyConfiguredAlways == TRUE

\* `if not api_key` / `if not settings.FAL_API_KEY`: the test of the routes.
KeyConfigured == apiKey

\* get_fal_provider, the dependency of the three extended routes.

GetFalProvider(r) ==
    /\ pc[r] = "NEW"
    /\ op[r] \in ExtendedOps
    /\ IF KeyConfigured
       THEN /\ pc' = [pc EXCEPT ![r] = "BUILD"]
            /\ UNCHANGED error
       ELSE Raise(r, Err("HTTPException", 500, <<"Fal.ai API key not configured">>))
    /\ UNCHANGED <<storeVars, inputs, validated, service, apiKey, op, payload, request_id, attempt, submit_response,
                   status_response, result_response, result, calls, lastCall,
                   polls_ok, job, image_url>>

\* generate_wan25 route -> process_wan25_request -> generate_wan25_preview,
\* up to the submit call.
BuildWan25(r) ==
    /\ pc[r] = "BUILD"
    /\ op[r] = "wan25_preview"
    /\ \E size \in OutputSizes, ar \in AspectRatios, refs \in ImageLists, seed \in Seeds :
          IF size.valid
          THEN /\ payload' = [payload EXCEPT ![r] = Wan25Payload(size, ar, refs, seed)]
               /\ inputs' = [inputs EXCEPT ![r] = [size |-> size, aspect_ratio |-> ar, reference_images |-> refs, seed |-> seed]]
               /\ pc' = [pc EXCEPT ![r] = "SUBMITTING"]
               /\ UNCHANGED error
          ELSE /\ Raise(r, Err("ValueError", 0, <<"invalid literal for int()">>))
               /\ UNCHANGED <<payload, inputs>>
    /\ UNCHANGED <<storeVars, validated, service, apiKey, op, request_id, attempt, submit_response,
                   status_response, result_response, result, calls, lastCall,
                   polls_ok, job, image_url>>

\* A builder that stamps the payload with a value of its own.
BuildQwenStamped(r) ==
    /\ pc[r] = "BUILD"
    /\ op[r] = "qwen_edit"
    /\ \E et \in EditTypes, mask \in ImageBytes \cup {None} :
          /\ payload' = [payload EXCEPT ![r] = QwenPayload(et, mask) @@ [request_time |-> calls[r].submit + 1]]
          /\ inputs' = [inputs EXCEPT ![r] = [edit_type |-> et, mask |-> mask]]
    /\ pc' = [pc EXCEPT ![r] = "SUBMITTING"]
    /\ UNCHANGED <<storeVars, validated, service, apiKey, op, request_id, attempt, submit_response,
                   status_response, result_response, result, error, calls,
                   lastCall, polls_ok, job, image_url>>

\* edit_with_qwen route -> process_qwen_edit_request -> edit_with_qwen, up to
\* the submit call.
BuildQwen(r) ==
    /\ pc[r] = "BUILD"
    /\ op[r] = "qwen_edit"
    /\ \E et \in EditTypes, mask \in ImageBytes \cup {None} :
          /\ payload' = [payload EXCEPT ![r] = QwenPayload(et, mask)]
          /\ inputs' = [inputs EXCEPT ![r] = [edit_type |-> et, mask |-> mask]]
    /\ pc' = [pc EXCEPT ![r] = "SUBMITTING"]
    /\ UNCHANGED <<storeVars, validated, service, apiKey, op, request_id, attempt, submit_response,
                   status_response, result_response, result, error, calls,
                   lastCall, polls_ok, job, image_url>>

\* generate_product_shots route -> process_product_shoot_request ->
\* generate_product_shots, up to the submit call.
BuildProductShots(r) ==
    /\ pc[r] = "BUILD"
    /\ op[r] = "product_shots"
    /\ \E imgs \in ImageLists, fmt \in OutputFormats, res \in Resolutions :
          /\ payload' = [payload EXCEPT ![r] = ProductShotsPayload(imgs, fmt, res)]
          /\ inputs' = [inputs EXCEPT ![r] = [product_images |-> imgs, output_format |-> fmt, resolution |-> res]]
    /\ pc' = [pc EXCEPT ![r] = "SUBMITTING"]
    /\ UNCHANGED <<storeVars, validated, service, apiKey, op, request_id, attempt, submit_response,
                   status_response, result_response, result, error, calls,
                   lastCall, polls_ok, job, image_url>>

\* ------------------------------------------------------- _submit_request
\* A client that takes no submit body for the final result.
IsSynchronousNever(submit_data) == FALSE

\* `if not request_id: return submit_data`.
IsSynchronous(submit_data) == submit_data.request_id = NoId

\* A COMPLETED test that also takes an unknown status for done.
IsCompletedOrUnknown(status) == status \in {"COMPLETED", "UNKNOWN"}

\* `status_data.get("status") == "COMPLETED"`.
IsCompleted(status) == status = "COMPLETED"

\* A FAILED test that also takes a missing status for a failure.
IsFailedOrMissing(status) == status \in {"FAILED", None}

\* `status_data.get("status") == "FAILED"`.
IsFailed(status) == status = "FAILED"

\* A poll loop that goes straight to its status call.
NextIterationNoWait == "POLLING"

\* Where an iteration of the poll loop starts: at `await asyncio.sleep(2)`.
NextIteration == "WAITING"

\* A loop that polls once more than max_attempts.
HasNextAttemptLong(a) == a + 1 < max_attempts + 1

\* A sleep that also wakes a request that timed out.
SleepAgain(r) ==
    /\ pc[r] \in {"WAITING", "TIMED_OUT"}
    /\ pc' = [pc EXCEPT ![r] = "POLLING"]
    /\ UNCHANGED <<storeVars, inputs, validated, service, apiKey, op, payload, request_id, attempt,
                   submit_response, status_response, result_response, result, error, calls,
                   lastCall, polls_ok, job, image_url>>

\* result_url, by the identifier in it: the request's own local request_id.
result_url(r) == request_id[r]

\* A client that reads no status body.
StatusOkNever(resp) == FALSE

\* `if status_response.status_code == 200`.
StatusOk(resp) == resp.code = 200

\* A poll loop one iteration short.
HasNextAttemptShort(a) == a + 1 < max_attempts - 1

\* Whether the poll loop has another iteration after attempt a.
HasNextAttempt(a) == a + 1 < max_attempts

\* A FAILED branch that drops the service's error text.
GenerationFailedBare(err) == Err("Exception", 0, <<"Generation failed">>)

\* The exception of the FAILED branch: f"Generation failed: {err}".
GenerationFailed(err) == Err("Exception", 0, <<"Generation failed: ", err>>)

\* A status error that forgets the response's code.
HTTPStatusErrorNoCode(code) == Err("HTTPStatusError", 0, <<"error response for url">>)

\* submit_response.raise_for_status(): the HTTPStatusError of a non-2xx
\* response, which holds the response and its status code.
HTTPStatusError(code) == Err("HTTPStatusError", code, <<"error response for url">>)

\* The submit call and the handling of its response, up to the first sleep.
Submit(r) ==
    /\ pc[r] = "SUBMITTING"
    /\ op[r] \in ExtendedOps
    /\ Called(r, "submit")
    /\ payload' = [payload EXCEPT ![r] = NoPayload]
    /\ inputs' = [inputs EXCEPT ![r] = NoInputs]
    /\ \E resp \in SubmitResponses(r) :
          /\ submit_response' = [submit_response EXCEPT ![r] = resp]
          /\ IF resp.kind = "transport"
             THEN /\ Raise(r, Err("TransportError", 0, <<"connection failed">>))
                  /\ UNCHANGED <<request_id, attempt, result, job>>
             ELSE IF ~IsSuccess(resp.code)
             THEN /\ Raise(r, HTTPStatusError(resp.code))
                  /\ UNCHANGED <<request_id, attempt, result, job>>
             ELSE IF ~resp.json
             THEN /\ Raise(r, Err("JSONDecodeError", 0, <<"Expecting value">>))
                  /\ UNCHANGED <<request_id, attempt, result, job>>
             ELSE IF IsSynchronous(resp.body)
             THEN /\ Return(r, resp.body)
                  /\ UNCHANGED <<request_id, attempt, error, job>>
             ELSE /\ request_id' = [request_id EXCEPT ![r] = resp.body.request_id]
                  /\ attempt' = [attempt EXCEPT ![r] = 0]
                  /\ \E j \in service : job' = [job EXCEPT ![r] = j]
                  /\ pc' = [pc EXCEPT ![r] = NextIteration]
                  /\ UNCHANGED <<result, error>>
    /\ UNCHANGED <<storeVars, validated, service, apiKey, op, status_response, result_response, polls_ok, image_url>>

\* A status URL kept in one place for all requests: always that of the first.
status_url_shared(r) == 1

\* status_url, by the identifier in it: the request's own local request_id.
\* The job it names is the one the service runs under that identifier.
status_url(r) == request_id[r]

\* A sleep that never returns.
SleepForever(r) == pc[r] = "WAITING" /\ UNCHANGED vars

\* `await asyncio.sleep(2)` returns.
Sleep(r) ==
    /\ pc[r] = "WAITING"
    /\ pc' = [pc EXCEPT ![r] = "POLLING"]
    /\ UNCHANGED <<storeVars, inputs, validated, service, apiKey, op, payload, request_id, attempt, submit_response,
                   status_response, result_response, result, error, calls,
                   lastCall, polls_ok, job, image_url>>

\* One status call and the handling of its response.
StatusPoll(r) ==
    /\ pc[r] = "POLLING"
    /\ Called(r, "status")
    /\ \E resp \in StatusResponses(job[status_url(r)], calls[r].status + 1) :
          /\ status_response' = [status_response EXCEPT ![r] = resp]
          /\ polls_ok' = [polls_ok EXCEPT ![r] =
                             @ /\ resp.kind = "http" /\ resp.code = 200 /\ resp.json]
          /\ IF resp.kind = "transport"
             THEN /\ Raise(r, Err("TransportError", 0, <<"connection failed">>))
                  /\ UNCHANGED attempt
             ELSE IF StatusOk(resp) /\ ~resp.json
             THEN /\ Raise(r, Err("JSONDecodeError", 0, <<"Expecting value">>))
                  /\ UNCHANGED attempt
             ELSE IF StatusOk(resp) /\ IsCompleted(resp.body.status)
             THEN /\ pc' = [pc EXCEPT ![r] = "FETCHING"]
                  /\ UNCHANGED <<attempt, error>>
             ELSE IF StatusOk(resp) /\ IsFailed(resp.body.status)
             THEN /\ Raise(r, GenerationFailed(resp.body.error))
                  /\ UNCHANGED attempt
             ELSE IF HasNextAttempt(attempt[r])
             THEN /\ attempt' = [attempt EXCEPT ![r] = @ + 1]
                  /\ pc' = [pc EXCEPT ![r] = NextIteration]
                  /\ UNCHANGED error
             ELSE /\ Raise(r, Err("TimeoutError", 0, <<"Request timed out after 2 minutes">>))
                  /\ UNCHANGED attempt
    /\ UNCHANGED <<storeVars, inputs, validated, service, apiKey, op, payload, request_id, submit_response,
                   result_response, result, job, image_url>>

\* The result fetch and `return result_response.json()`.
FetchResult(r) ==
    /\ pc[r] = "FETCHING"
    /\ Called(r, "result")
    /\ \E resp \in FetchResponses :
          /\ result_response' = [result_response EXCEPT ![r] = resp]
          /\ IF resp.kind = "transport"
             THEN /\ Raise(r, Err("TransportError", 0, <<"connection failed">>))
                  /\ UNCHANGED result
             ELSE IF ~resp.json
             THEN /\ Raise(r, Err("JSONDecodeError", 0, <<"Expecting value">>))
                  /\ UNCHANGED result
             ELSE /\ Return(r, resp.body)
                  /\ UNCHANGED error
    /\ UNCHANGED <<storeVars, inputs, validated, service, apiKey, op, payload, request_id, attempt, submit_response,
                   status_response, polls_ok, job, image_url>>

\* ------------------------------------------ the direct provider (fal_ai.py)
\* generate_image of backend/api/generation.py, up to the provider call.
GenerateRoute(r) ==
    /\ pc[r] = "NEW"
    /\ op[r] = "generate"
    /\ IF KeyConfigured
       THEN /\ pc' = [pc EXCEPT ![r] = "BUILD"]
            /\ UNCHANGED error
       ELSE Raise(r, Err("HTTPException", 400, <<"Fal.ai API key not configured">>))
    /\ UNCHANGED <<storeVars, inputs, validated, service, apiKey, op, payload, submit_response, result, calls, lastCall,
                   image_url, queueVars>>

\* The product-photoshoot route over the direct provider, up to the provider
\* call.
ProductShootRoute(r) ==
    /\ pc[r] = "NEW"
    /\ op[r] = "product_shoot"
    /\ IF KeyConfigured
       THEN /\ pc' = [pc EXCEPT ![r] = "BUILD"]
            /\ UNCHANGED error
       ELSE Raise(r, Err("HTTPException", 400, <<"Fal.ai API key not configured">>))
    /\ UNCHANGED <<storeVars, inputs, validated, service, apiKey, op, payload, submit_response, result, calls, lastCall,
                   image_url, queueVars>>

\* FalAIProvider.generate, up to the POST.
BuildGenerate(r) ==
    /\ pc[r] = "BUILD"
    /\ op[r] = "generate"
    /\ \E w \in SizeValues, h \in SizeValues, seed \in Seeds :
          /\ payload' = [payload EXCEPT ![r] = GeneratePayload(w, h, seed)]
          /\ inputs' = [inputs EXCEPT ![r] = [width |-> w, height |-> h, seed |-> seed]]
    /\ pc' = [pc EXCEPT ![r] = "POSTING"]
    /\ UNCHANGED <<storeVars, validated, service, apiKey, op, submit_response, result, error, calls, lastCall,
                   image_url, queueVars>>

\* `if not product_images: raise`.
HasProductImage(product_images) == Len(product_images) > 0

\* ------------------------- generate_product_shoot: the image pre-processing
\* max_dimension = 2048 and max_size = 1024 * 1024.
max_dimension == 2048
max_size == 1048576

\* The first product image as PIL opens it: its mode and size, or bytes that
\* are no image.
Modes == {"RGB", "L", "RGBA", "LA", "P", "CMYK"}
Sides == {1, 1000, 2048, 2215, 4096}
DecodedImages ==
    {[valid |-> TRUE, mode |-> m, width |-> w, height |-> h] :
        m \in Modes, w \in Sides, h \in Sides}
    \cup {[valid |-> FALSE, mode |-> None, width |-> 0, height |-> 0]}

\* The mode after the conversion for JPEG: alpha and palette modes are
\* pasted on a white RGB background, RGB and L stay, the others are
\* converted to RGB.
ConvertedMode(mode) ==
    IF mode \in {"RGBA", "LA", "P"} THEN "RGB"
    ELSE IF mode \notin {"RGB", "L"} THEN "RGB"
    ELSE mode

\* The longest sides m among Sides for which the double m * (2048 / m) is
\* below 2048, so that int() gives 2047.
RoundsBelow == {2215}

\* int(side * ratio) with ratio = max_dimension / longest, in double
\* arithmetic.
ScaledSide(side, longest) ==
    IF side = longest /\ longest \in RoundsBelow
    THEN max_dimension - 1
    ELSE (side * max_dimension) \div longest

\* new_size, or the size as it is when the image is not too large.
NewSize(width, height) ==
    LET longest == max(width, height)
    IN  IF longest > max_dimension
        THEN <<ScaledSide(width, longest), ScaledSide(height, longest)>>
        ELSE <<width, height>>

\* img.resize raises ValueError for a size with a side below 1.
ResizeRaises(width, height) ==
    /\ max(width, height) > max_dimension
    /\ (NewSize(width, height)[1] < 1 \/ NewSize(width, height)[2] < 1)

\* The image after the mode conversion and the resize.
Preprocessed(image) ==
    [mode |-> ConvertedMode(image.mode),
     width |-> NewSize(image.width, image.height)[1],
     height |-> NewSize(image.width, image.height)[2]]

\* The qualities the encoder may be asked for, and the size of the JPEG it
\* makes at each: within max_size or above it.
Qualities == {95, 85, 75, 65}
EncodedSizes == [Qualities -> {max_size, max_size + 1}]
SizeAt(encoded_size, quality) ==
    IF quality \in DOMAIN encoded_size THEN encoded_size[quality]
    ELSE encoded_size[65]

\* output_buffer before the first save: empty.
EmptyBuffer == [quality |-> 0, size |-> 0, tried |-> <<>>]

\* A loop that goes on one step below the floor.
KeepsTryingBelowFloor(quality) == quality >= 50

\* `while quality >= 60`.
KeepsTrying(quality) == quality >= 60

RECURSIVE Recompress(_, _, _)
\* The recompression loop from `quality` on: output_buffer when it ends.
\* tried lists the qualities img.save was called with.
Recompress(quality, output_buffer, encoded_size) ==
    IF KeepsTrying(quality)
    THEN LET saved == [quality |-> quality,
                       size |-> SizeAt(encoded_size, quality),
                       tried |-> Append(output_buffer.tried, quality)]
         IN  IF saved.size <= max_size
             THEN saved
             ELSE Recompress(quality - 10, saved, encoded_size)
    ELSE output_buffer

\* compressed_image: the pre-processed image as the loop encoded it last.
CompressedImage(image, encoded_size) ==
    LET buffer == Recompress(95, EmptyBuffer, encoded_size)
    IN  [mode |-> Preprocessed(image).mode,
         width |-> Preprocessed(image).width,
         height |-> Preprocessed(image).height,
         quality |-> buffer.quality,
         size |-> buffer.size,
         tried |-> buffer.tried]

\* FalAIProvider.generate_product_shoot, up to the POST.
BuildProductShoot(r) ==
    /\ pc[r] = "BUILD"
    /\ op[r] = "product_shoot"
    /\ \E imgs \in ImageLists, image \in DecodedImages, encoded_size \in EncodedSizes :
          /\ inputs' = [inputs EXCEPT ![r] =
                           [product_images |-> imgs, image |-> image,
                            encoded_size |-> encoded_size]]
          /\ IF ~HasProductImage(imgs)
             THEN /\ Raise(r, Err("Exception", 0, <<"At least one product image is required">>))
                  /\ UNCHANGED payload
             ELSE IF ~image.valid
             THEN /\ Raise(r, Err("UnidentifiedImageError", 0, <<"cannot identify image file">>))
                  /\ UNCHANGED payload
             ELSE IF ResizeRaises(image.width, image.height)
             THEN /\ Raise(r, Err("ValueError", 0, <<"height and width must be > 0">>))
                  /\ UNCHANGED payload
             ELSE /\ payload' = [payload EXCEPT ![r] =
                                    ProductShootPayload(CompressedImage(image, encoded_size))]
                  /\ pc' = [pc EXCEPT ![r] = "POSTING"]
                  /\ UNCHANGED error
    /\ UNCHANGED <<storeVars, validated, service, apiKey, op, submit_response, result, calls, lastCall,
                   image_url, queueVars>>

\* FalAIProvider.generate: the images of a 200 body, as returned.
GenerateImages(body) ==
    IF body.has_images THEN body.images
    ELSE IF body.has_image THEN <<body.image>>
    ELSE <<>>

\* {"url": u}
UrlImage(u) == [form |-> "obj", url |-> u]

RECURSIVE ProductShootList(_)
\* FalAIProvider.generate_product_shoot: the loop over result["images"].
ProductShootList(images) ==
    IF images = <<>> THEN <<>>
    ELSE LET img == Head(images)
             rest == ProductShootList(Tail(images))
         IN  IF img.url # None THEN <<UrlImage(img.url)>> \o rest ELSE rest

\* FalAIProvider.generate_product_shoot: the images of a 200 body.
ProductShootImages(body) ==
    LET found == IF body.has_image
                 THEN IF body.image.url # None
                      THEN <<UrlImage(body.image.url)>> ELSE <<>>
                 ELSE IF body.has_images THEN ProductShootList(body.images)
                 ELSE <<>>
    IN  IF found = <<>> THEN <<UrlImage("error: no image URL found")>> ELSE found

\* The exception of a non-200 answer to a direct POST: its message carries
\* the status code.
ApiError(prefix, code) == Err("Exception", code, <<prefix, "error_msg">>)

\* The lengths of the text an error response carries: of its `detail` when
\* the body is a JSON object, of the whole body otherwise.
TextLens == {1, 500, 501, 2000}

\* response_text[:500].
Truncated(n) == min(n, 500)

\* The length of error_msg: the `detail` of a JSON body as it is, the first
\* 500 characters of any other body.
ErrorMsgLength(json, n) == IF json THEN n ELSE Truncated(n)

\* FalAIProvider.generate: the POST and the handling of its response.
PostGenerate(r) ==
    /\ pc[r] = "POSTING"
    /\ op[r] = "generate"
    /\ Called(r, "submit")
    /\ payload' = [payload EXCEPT ![r] = NoPayload]
    /\ inputs' = [inputs EXCEPT ![r] = NoInputs]
    /\ \E resp \in DirectResponses :
          /\ submit_response' = [submit_response EXCEPT ![r] = resp]
          /\ IF resp.kind = "transport"
             THEN /\ Raise(r, Err("Exception", 0, <<"Request failed: ", "connection failed">>))
                  /\ UNCHANGED result
             ELSE IF resp.code # 200
             THEN /\ \E n \in TextLens :
                     Raise(r, Embeds(ApiError("Fal.ai API Error", resp.code),
                                     ErrorMsgLength(resp.json, n)))
                  /\ UNCHANGED result
             ELSE IF ~resp.json
             THEN /\ Raise(r, Err("Exception", 0, <<"Invalid JSON response from Fal.ai: ">>))
                  /\ UNCHANGED result
             ELSE /\ Return(r, [images |-> GenerateImages(resp.body)])
                  /\ UNCHANGED error
    /\ UNCHANGED <<storeVars, validated, service, apiKey, op, image_url, queueVars>>

\* FalAIProvider.generate_product_shoot: the POST and the handling of its
\* response.
PostProductShoot(r) ==
    /\ pc[r] = "POSTING"
    /\ op[r] = "product_shoot"
    /\ Called(r, "submit")
    /\ payload' = [payload EXCEPT ![r] = NoPayload]
    /\ inputs' = [inputs EXCEPT ![r] = NoInputs]
    /\ \E resp \in DirectResponses :
          /\ submit_response' = [submit_response EXCEPT ![r] = resp]
          /\ IF resp.kind = "transport"
             THEN /\ Raise(r, Err("TransportError", 0, <<"connection failed">>))
                  /\ UNCHANGED result
             ELSE IF resp.code # 200
             THEN /\ \E n \in TextLens :
                     Raise(r, Embeds(ApiError("Product Photoshoot API Error", resp.code),
                                     ErrorMsgLength(resp.json, n)))
                  /\ UNCHANGED result
             ELSE IF ~resp.json
             THEN /\ Raise(r, Err("JSONDecodeError", 0, <<"Expecting value">>))
                  /\ UNCHANGED result
             ELSE /\ Return(r, [images |-> ProductShootImages(resp.body),
                                message |-> "Generated product photo successfully"])
                  /\ UNCHANGED error
    /\ UNCHANGED <<storeVars, validated, service, apiKey, op, image_url, queueVars>>

\* --------------------------------------- the first provider (fal-provider.py)
\* GenerationResult(success=False, error=str(e)).
Failure(e) == [success |-> FALSE, image_data |-> None, error |-> e.msg]

\* generate_image returns a failure result for exception e.
ReturnFailure(r, e) ==
    /\ pc' = [pc EXCEPT ![r] = "FAILED"]
    /\ error' = [error EXCEPT ![r] = e]
    /\ result' = [result EXCEPT ![r] = Failure(e)]

\* generate_image of backend/main.py, up to the provider call.
MainRoute(r) ==
    /\ pc[r] = "NEW"
    /\ op[r] = "generate_image"
    /\ IF KeyConfigured
       THEN /\ pc' = [pc EXCEPT ![r] = "BUILD"]
            /\ UNCHANGED error
       ELSE Raise(r, Err("JSONResponse", 500, <<"FAL_API_KEY not set. Please add it to your .env file">>))
    /\ UNCHANGED <<storeVars, inputs, validated, service, apiKey, op, payload, submit_response, result, calls, lastCall,
                   image_url, queueVars>>

\* FalAIProvider.generate_image (fal-provider.py), up to the POST.
BuildLegacy(r) ==
    /\ pc[r] = "BUILD"
    /\ op[r] = "generate_image"
    /\ \E f \in ModelFamilies, w \in SizeValues, h \in SizeValues, seed \in Seeds :
          /\ payload' = [payload EXCEPT ![r] = BuildPayload(f, w, h, seed)]
          /\ inputs' = [inputs EXCEPT ![r] = [family |-> f, width |-> w, height |-> h, seed |-> seed]]
    /\ pc' = [pc EXCEPT ![r] = "POSTING"]
    /\ UNCHANGED <<storeVars, validated, service, apiKey, op, submit_response, result, error, calls, lastCall,
                   image_url, queueVars>>

\* result["images"][0]["url"] or result["image"]["url"]: the entry read, or
\* NoEntry where the lookup raises.
LegacyEntry(body) ==
    IF body.has_images
    THEN IF body.images = <<>> THEN NoEntry ELSE body.images[1]
    ELSE body.image

\* FalAIProvider.generate_image: the POST and the handling of its response,
\* up to the download.
PostLegacy(r) ==
    /\ pc[r] = "POSTING"
    /\ op[r] = "generate_image"
    /\ Called(r, "submit")
    /\ payload' = [payload EXCEPT ![r] = NoPayload]
    /\ inputs' = [inputs EXCEPT ![r] = NoInputs]
    /\ \E resp \in DirectResponses :
          /\ submit_response' = [submit_response EXCEPT ![r] = resp]
          /\ IF resp.kind = "transport"
             THEN /\ ReturnFailure(r, Err("TransportError", 0, <<"connection failed">>))
                  /\ UNCHANGED image_url
             ELSE IF resp.code # 200
             THEN /\ \E n \in TextLens :
                     ReturnFailure(r, Embeds(Err("Exception", 0,
                                                 <<"Fal.ai API error: ", "response.text">>), n))
                  /\ UNCHANGED image_url
             ELSE IF ~resp.json
             THEN /\ ReturnFailure(r, Err("JSONDecodeError", 0, <<"Expecting value">>))
                  /\ UNCHANGED image_url
             ELSE IF ~resp.body.has_images /\ ~resp.body.has_image
             THEN /\ ReturnFailure(r, Err("Exception", 0, <<"Unexpected response format from Fal.ai">>))
                  /\ UNCHANGED image_url
             ELSE IF LegacyEntry(resp.body).form # "obj" \/ LegacyEntry(resp.body).url = None
             THEN /\ ReturnFailure(r, Err("LookupError", 0, <<"url">>))
                  /\ UNCHANGED image_url
             ELSE /\ image_url' = [image_url EXCEPT ![r] = LegacyEntry(resp.body).url]
                  /\ pc' = [pc EXCEPT ![r] = "DOWNLOADING"]
                  /\ UNCHANGED <<result, error>>
    /\ UNCHANGED <<storeVars, validated, service, apiKey, op, queueVars>>

\* FalAIProvider._download_image and the success result.
DownloadImage(r) ==
    /\ pc[r] = "DOWNLOADING"
    /\ Called(r, "download")
    /\ \E resp \in DownloadResponses :
          IF resp.kind = "transport"
          THEN ReturnFailure(r, Err("TransportError", 0, <<"connection failed">>))
          ELSE IF resp.code # 200
          THEN ReturnFailure(r, Err("Exception", resp.code, <<"Failed to download image: ">>))
          ELSE /\ Return(r, [success |-> TRUE, image_data |-> image_url[r], error |-> <<>>])
               /\ UNCHANGED error
    /\ UNCHANGED <<storeVars, inputs, validated, service, apiKey, op, payload, submit_response, image_url, queueVars>>

Next ==
    \E r \in Reqs :
        \/ GetFalProvider(r)
        \/ BuildWan25(r)
        \/ BuildQwen(r)
        \/ BuildProductShots(r)
        \/ Submit(r)
        \/ Sleep(r)
        \/ StatusPoll(r)
        \/ FetchResult(r)
        \/ GenerateRoute(r)
        \/ ProductShootRoute(r)
        \/ BuildGenerate(r)
        \/ BuildProductShoot(r)
        \/ PostGenerate(r)
        \/ PostProductShoot(r)
        \/ MainRoute(r)
        \/ BuildLegacy(r)
        \/ PostLegacy(r)
        \/ DownloadImage(r)

Spec == Init /\ [][Next]_vars

\* ------------------------------------------------- validate_parameters
\* The integer widths and heights validate_parameters is tried on.
DimInputs == {-8, 0, 63, 64, 65, 71, 1025, 1030, 2047, 2048, 2049, 5000}

\* A validation that rounds up to the next multiple of 8.
ValidDimensionUp(x) == ((min(max(x, 64), 2048) + 7) \div 8) * 8

\* min(max(x, 64), 2048), then (v // 8) * 8.
ValidDimension(x) == (min(max(x, 64), 2048) \div 8) * 8

\* BaseProvider.validate_parameters: the width and height of its result.
validate_parameters(p) ==
    [p EXCEPT !.width = ValidDimension(p.width),
              !.height = ValidDimension(p.height),
              !.calls = @ + 1]

\* No request is running.
NoRequests ==
    /\ pc = [r \in Reqs |-> "IDLE"]
    /\ op = [r \in Reqs |-> None]
    /\ payload = [r \in Reqs |-> NoPayload]
    /\ request_id = [r \in Reqs |-> 0]
    /\ attempt = [r \in Reqs |-> 0]
    /\ submit_response = [r \in Reqs |-> NoResp]
    /\ status_response = [r \in Reqs |-> NoResp]
    /\ result_response = [r \in Reqs |-> NoResp]
    /\ result = [r \in Reqs |-> NoBody]
    /\ error = [r \in Reqs |-> NoError]
    /\ calls = [r \in Reqs |-> [submit |-> 0, status |-> 0, result |-> 0, download |-> 0]]
    /\ lastCall = [r \in Reqs |-> None]
    /\ polls_ok = [r \in Reqs |-> TRUE]
    /\ job = [r \in Reqs |-> NoJob]
    /\ image_url = [r \in Reqs |-> None]
    /\ inputs = [r \in Reqs |-> NoInputs]

\* A caller holds integer parameters and has not validated them yet.
ValidateInit ==
    /\ apiKey = FALSE
    /\ NoRequests
    /\ service = Jobs
    /\ NoStore
    /\ \E w \in DimInputs, h \in DimInputs :
          validated = [given |-> <<w, h>>, width |-> w, height |-> h, calls |-> 0]

\* The caller validates the parameters it holds.
ValidateParameters ==
    /\ validated.calls < MaxCalls
    /\ validated' = validate_parameters(validated)
    /\ UNCHANGED <<apiKey, pc, op, payload, request_id, attempt, submit_response,
                   status_response, result_response, result, error, calls,
                   lastCall, polls_ok, job, image_url, inputs, service, storeVars>>

ValidateNext == ValidateParameters

ValidateSpec == ValidateInit /\ [][ValidateNext]_vars

\* ------------------------------------- two requests on one provider instance
\* The jobs the service runs while two requests are in flight.
ConcJobs ==
    {[outcome |-> "COMPLETED", at |-> 2, error |-> None],
     [outcome |-> "FAILED", at |-> 1, error |-> "x"]}

\* Request 1 is new.  Request 2 is in its poll loop: queued under its own
\* identifier, two iterations before the end of its budget, its last status
\* call answered 500.
ConcInit ==
    /\ apiKey = TRUE
    /\ validated = NoParams
    /\ service = ConcJobs
    /\ NoStore
    /\ pc = [r \in Reqs |-> IF r = 1 THEN "NEW" ELSE IF r = 2 THEN "WAITING" ELSE "IDLE"]
    /\ op = [r \in Reqs |-> IF r \in {1, 2} THEN "qwen_edit" ELSE None]
    /\ payload = [r \in Reqs |-> NoPayload]
    /\ inputs = [r \in Reqs |-> NoInputs]
    /\ request_id = [r \in Reqs |-> IF r = 2 THEN IdOf(r) ELSE 0]
    /\ attempt = [r \in Reqs |-> IF r = 2 THEN max_attempts - 2 ELSE 0]
    /\ submit_response =
          [r \in Reqs |-> IF r = 2 THEN Http(200, JsonObj(IdOf(r), None, None, 1)) ELSE NoResp]
    /\ status_response = [r \in Reqs |-> IF r = 2 THEN HttpText(500) ELSE NoResp]
    /\ result_response = [r \in Reqs |-> NoResp]
    /\ result = [r \in Reqs |-> NoBody]
    /\ error = [r \in Reqs |-> NoError]
    /\ calls = [r \in Reqs |->
                  [submit |-> IF r = 2 THEN 1 ELSE 0,
                   status |-> IF r = 2 THEN max_attempts - 2 ELSE 0,
                   result |-> 0, download |-> 0]]
    /\ lastCall = [r \in Reqs |-> IF r = 2 THEN "status" ELSE None]
    /\ polls_ok = [r \in Reqs |-> r # 2]
    /\ \E j \in ConcJobs : job = [r \in Reqs |-> IF r = 2 THEN j ELSE NoJob]
    /\ image_url = [r \in Reqs |-> None]

ConcStep(r) ==
    \/ GetFalProvider(r)
    \/ BuildQwen(r)
    \/ Submit(r)
    \/ Sleep(r)
    \/ StatusPoll(r)
    \/ FetchResult(r)

ConcNext == \E r \in Reqs : ConcStep(r)

ConcSpec == ConcInit /\ [][ConcNext]_vars

\* Every awaited call (a request with its timeout, a sleep) returns or fails
\* in finite time, and the event loop resumes a coroutine whose awaited call
\* is over: a request that can take a step takes one.
FairSpec == ConcSpec /\ \A r \in Reqs : WF_vars(ConcStep(r))

\* -------------------------------------------------- ImageInput.to_fal_format
\* A Python str, by what matters of it here: empty or not, and whether it
\* starts as a data URI of an image.
Str(prefix, body) == [type |-> "str", prefix |-> prefix, body |-> body]
Bytes(body) == [type |-> "bytes", body |-> body]

\* base64.b64encode(...).decode('utf-8').
b64encode(body) ==
    CASE body = "" -> ""
      [] body = "PNG" -> "UE5H"
      [] body = "JPEG" -> "SlBFRw=="

\* The files to_fal_format may be pointed at; "missing.png" does not exist.
Disk == ("a.png" :> "PNG") @@ ("b.jpg" :> "JPEG")

\* The ImageInput values: data is bytes or a str (plain base64, or a data
\* URI), url and path are None, empty or set.
ImageInputs ==
    {[data |-> d, url |-> u, path |-> q] :
        d \in {Bytes("PNG"), Bytes(""), Str("", "UE5H"), Str("", ""),
               Str("data:image/png;base64,", "UE5H")},
        u \in {None, "", "http://x/1.png"},
        q \in {None, "", "a.png", "missing.png"}}

\* ImageInput.to_fal_format: {"url": ...}, {"data": ...}, or the exception
\* of open().
to_fal_format(self) ==
    IF self.url \notin {None, ""}
    THEN [kind |-> "url", value |-> self.url]
    ELSE IF self.path \notin {None, ""}
    THEN IF self.path \in DOMAIN Disk
         THEN [kind |-> "data",
               value |-> Str("data:image/png;base64,", b64encode(Disk[self.path]))]
         ELSE [kind |-> "raised", value |-> "FileNotFoundError"]
    ELSE IF self.data.type = "bytes"
    THEN [kind |-> "data", value |-> Str("data:image/png;base64,", b64encode(self.data.body))]
    ELSE [kind |-> "data", value |-> self.data]

\* A caller holds an ImageInput and has not converted it yet.
FormatInit ==
    /\ apiKey = FALSE
    /\ NoRequests
    /\ service = Jobs
    /\ validated = NoParams
    /\ metadata = <<>>
    /\ files = <<>>
    /\ saves = [t \in Saves |-> NoSave]
    /\ now = 0
    /\ \E i \in ImageInputs : converted = [image |-> i, out |-> None, calls |-> 0]

\* The caller converts the image it holds.
ToFalFormat ==
    /\ converted.calls < 1
    /\ converted' = [converted EXCEPT !.out = to_fal_format(converted.image),
                                      !.calls = @ + 1]
    /\ UNCHANGED <<apiKey, pc, op, payload, request_id, attempt, submit_response,
                   status_response, result_response, result, error, calls,
                   lastCall, polls_ok, job, image_url, inputs, validated, service,
                   metadata, files, saves, now>>

FormatNext == ToFalFormat

FormatSpec == FormatInit /\ [][FormatNext]_vars

\* ---------------------------------------------- GalleryManager.save_image
\* What the download of an image URL gives: no answer, or the content of
\* the response, which PIL can open or not.
Contents == {"imgA", "imgB", "not an image"}
IsImage(content) == content \in {"imgA", "imgB"}

\* f"img_{timestamp}_{len(self.metadata['images'])}.png", by its two parts.
Filename(timestamp, images) == <<timestamp, Len(images)>>

\* image_info, by the fields that identify the entry.
ImageInfo(images, filename) == [id |-> Len(images) + 1, filename |-> filename]

\* open(filepath, 'wb') and f.write(image_data) by call t.
Written(filename, t, image_data) ==
    LET w == [by |-> t, image_data |-> image_data]
    IN  IF filename \in DOMAIN files
        THEN [files EXCEPT ![filename] = Append(@, w)]
        ELSE files @@ (filename :> <<w>>)

\* A new gallery, and the save_image calls not started.
GalleryInit ==
    /\ apiKey = FALSE
    /\ NoRequests
    /\ service = Jobs
    /\ validated = NoParams
    /\ NoStore

\* save_image from its start to `await client.get(image_url)`.
SaveStart(t) ==
    /\ saves[t].pc = "IDLE"
    /\ saves' = [saves EXCEPT ![t] =
                    [pc |-> "DOWNLOADING", filename |-> Filename(now, metadata),
                     image_data |-> None]]
    /\ UNCHANGED <<apiKey, pc, op, payload, request_id, attempt, submit_response,
                   status_response, result_response, result, error, calls,
                   lastCall, polls_ok, job, image_url, inputs, validated, service,
                   converted, metadata, files, now>>

\* save_image from the answer to the download to its end.
SaveDownloaded(t) ==
    /\ saves[t].pc = "DOWNLOADING"
    /\ \/ /\ saves' = [saves EXCEPT ![t].pc = "FAILED"]
          /\ UNCHANGED <<files, metadata>>
       \/ \E image_data \in Contents :
             /\ files' = Written(saves[t].filename, t, image_data)
             /\ IF IsImage(image_data)
                THEN /\ metadata' = <<ImageInfo(metadata, saves[t].filename)>> \o metadata
                     /\ saves' = [saves EXCEPT ![t].pc = "DONE",
                                               ![t].image_data = image_data]
                ELSE /\ saves' = [saves EXCEPT ![t].pc = "FAILED",
                                               ![t].image_data = image_data]
                     /\ UNCHANGED metadata
    /\ UNCHANGED <<apiKey, pc, op, payload, request_id, attempt, submit_response,
                   status_response, result_response, result, error, calls,
                   lastCall, polls_ok, job, image_url, inputs, validated, service,
                   converted, now>>

\* A second passes.
Tick ==
    /\ now < MaxNow
    /\ now' = now + 1
    /\ UNCHANGED <<apiKey, pc, op, payload, request_id, attempt, submit_response,
                   status_response, result_response, result, error, calls,
                   lastCall, polls_ok, job, image_url, inputs, validated, service,
                   converted, metadata, files, saves>>

GalleryNext ==
    \/ \E t \in Saves : SaveStart(t)
    \/ \E t \in Saves : SaveDownloaded(t)
    \/ Tick

GallerySpec == GalleryInit /\ [][GalleryNext]_vars

\* ============================================================== properties
\* The requests that went through _submit_request with a queued job.
Queued(r) == op[r] \in ExtendedOps /\ request_id[r] # NoId

\* Response resp is an HTTP answer with a 2xx code.
Answered2xx(resp) == resp.kind = "http" /\ IsSuccess(resp.code)

\* Response resp is a 200 answer whose JSON body reports status s.
Reports(resp, s) ==
    resp.kind = "http" /\ resp.code = 200 /\ resp.json /\ resp.body.status = s

\* C1: in _submit_request, when the submit call returns 2xx and its JSON body
\* carries no request identifier, the request ends COMPLETED with the submit
\* body itself as the result, and no status call and no result fetch is
\* issued.
C1_SyncSubmitCompletes ==
    \A r \in Reqs :
        (/\ op[r] \in ExtendedOps
         /\ Answered2xx(submit_response[r])
         /\ submit_response[r].json
         /\ submit_response[r].body.request_id = NoId)
        => (/\ pc[r] = "COMPLETED"
            /\ result[r] = submit_response[r].body
            /\ calls[r].submit = 1
            /\ calls[r].status = 0
            /\ calls[r].result = 0)

C1_Witness ==
    \E r \in Reqs :
        /\ op[r] \in ExtendedOps
        /\ submit_response[r] = Http(202, JsonObj(NoId, None, None, MaxBody))
        /\ pc[r] = "COMPLETED"

\* C2: when the submit response carries a request identifier and the first
\* n-1 status polls answer a non-terminal status and the n-th answers
\* COMPLETED (n in 1..60), the client issues exactly n status calls, then
\* exactly one result fetch, and ends COMPLETED with the fetched body as the
\* result.
C2_CompletedAfterNPolls ==
    \A r \in Reqs :
        (Queued(r) /\ job[r].outcome = "COMPLETED" /\ polls_ok[r])
        => /\ calls[r].status <= job[r].at
           /\ calls[r].result > 0 => calls[r].status = job[r].at
           /\ pc[r] = "FETCHING" => calls[r].status = job[r].at /\ calls[r].result = 0
           /\ Terminal(r)
              => /\ calls[r].status = job[r].at
                 /\ calls[r].result = 1
                 /\ lastCall[r] = "result"
                 /\ (result_response[r].kind = "http" /\ result_response[r].json)
                    => (pc[r] = "COMPLETED" /\ result[r] = result_response[r].body)

C2_Witness ==
    \E r \in Reqs :
        /\ Queued(r) /\ job[r].outcome = "COMPLETED" /\ polls_ok[r]
        /\ job[r].at = 3
        /\ calls[r].status = 3
        /\ calls[r].result = 1
        /\ pc[r] = "COMPLETED"
        /\ result[r] = Http(200, JsonObj(NoId, None, None, MaxBody)).body

\* C3: when the submit response carries a request identifier and no status
\* poll ever answers COMPLETED or FAILED (every poll being answered), the
\* client issues exactly 60 status calls and no result fetch, and ends
\* TIMED_OUT with a timeout error raised to the caller.
C3_TimesOutAfterBudget ==
    \A r \in Reqs :
        (/\ Queued(r)
         /\ Terminal(r)
         /\ status_response[r].kind = "http"
         /\ ~(status_response[r].code = 200 /\ ~status_response[r].json)
         /\ ~Reports(status_response[r], "COMPLETED")
         /\ ~Reports(status_response[r], "FAILED"))
        => (/\ pc[r] = "TIMED_OUT"
            /\ error[r].type = "TimeoutError"
            /\ calls[r].status = max_attempts
            /\ calls[r].result = 0)

C3_Witness ==
    \E r \in Reqs :
        /\ Queued(r)
        /\ job[r].outcome = "NEVER"
        /\ polls_ok[r]
        /\ pc[r] = "TIMED_OUT"
        /\ calls[r].status = max_attempts

\* C4: when a status poll answers status FAILED with error text x, the
\* request ends FAILED with an error message that contains x, and no further
\* status call and no result fetch is issued for it.
C4_FailedCarriesError ==
    \A r \in Reqs :
        Reports(status_response[r], "FAILED")
        => (/\ pc[r] = "FAILED"
            /\ Contains(error[r].msg, status_response[r].body.error)
            /\ lastCall[r] = "status"
            /\ calls[r].result = 0)

C4_Witness ==
    \E r \in Reqs :
        /\ Reports(status_response[r], "FAILED")
        /\ status_response[r].body.error = "x"
        /\ calls[r].status = 2
        /\ pc[r] = "FAILED"

\* C5: a transport error on one status poll does not end the request: the
\* attempt counts against the budget of 60 and the next poll is still
\* issued, so the request fails on it only by running out of attempts.
C5_TransportErrorTolerated ==
    \A r \in Reqs :
        status_response[r].kind = "transport"
        => (/\ pc[r] \in {"WAITING", "POLLING", "TIMED_OUT"}
            /\ pc[r] = "TIMED_OUT" <=> calls[r].status = max_attempts)

C7_NonSuccessRejected ==
    \A r \in Reqs :
        /\ (status_response[r].kind = "http" /\ ~IsSuccess(status_response[r].code))
           => (pc[r] = "FAILED" /\ error[r].code = status_response[r].code)
        /\ (result_response[r].kind = "http" /\ ~IsSuccess(result_response[r].code))
           => (pc[r] = "FAILED" /\ error[r].code = result_response[r].code)

\* C8: when the API key is not configured, every generation operation fails
\* with a configuration error before any call to the remote service: no
\* submit call (and no other call) is issued.
C8_NoKeyNoCall ==
    \A r \in Reqs :
        (~apiKey /\ op[r] \in Ops)
        => (/\ pc[r] \in {"NEW", "FAILED"}
            /\ pc[r] = "FAILED"
               => (/\ error[r].type \in {"HTTPException", "JSONResponse"}
                   /\ error[r].code \in {400, 500})
            /\ calls[r] = [submit |-> 0, status |-> 0, result |-> 0, download |-> 0])

C8_Witness ==
    \E r \in Reqs :
        /\ ~apiKey
        /\ op[r] = "product_shots"
        /\ pc[r] = "FAILED"
        /\ Contains(error[r].msg, "Fal.ai API key not configured")

\* C9: a product-shoot or edit request with zero input images is rejected
\* before submission in every provider implementation: no request whose
\* list of product images is empty stands before its call to the service.
C9_ZeroImagesRejected ==
    \A r \in Reqs :
        (pc[r] \in {"SUBMITTING", "POSTING"} /\ "product_images" \in DOMAIN payload[r])
        => payload[r].product_images # <<>>

\* The width and height a payload carries (<<64, 64>> where it carries none).
PayloadDims(p) ==
    IF "width" \in DOMAIN p THEN <<p.width, p.height>>
    ELSE IF "output" \in DOMAIN p THEN <<p.output.width, p.output.height>>
    ELSE IF "image_size" \in DOMAIN p THEN <<p.image_size.width, p.image_size.height>>
    ELSE <<64, 64>>

ValidDim(x) == x % 8 = 0 /\ x >= 64 /\ x <= 2048

\* C10: for every request the payload builders accept (text-to-image,
\* WAN-25, product-shoot), the width and height placed in the payload are
\* both multiples of 8 and both within [64, 2048].
C10_DimsValid ==
    \A r \in Reqs :
        pc[r] \in {"SUBMITTING", "POSTING"}
        => (ValidDim(PayloadDims(payload[r])[1]) /\ ValidDim(PayloadDims(payload[r])[2]))

\* floor8(min(max(w, 64), 2048)) of an integer w, stated without division:
\* the multiple of 8 within [64, 2048] that is w's clamped value rounded down.
IsFloor8Clamped(v, w) ==
    /\ v % 8 = 0
    /\ v >= 64
    /\ v <= 2048
    /\ w < 64 => v = 64
    /\ w > 2048 => v = 2048
    /\ (w >= 64 /\ w <= 2048) => (v <= w /\ w < v + 8)

\* C11: validate_parameters maps every integer width and height w to
\* floor8(min(max(w, 64), 2048)); the result is a multiple of 8 within
\* [64, 2048], validating a validated value changes nothing, and width 1025,
\* height 1030 gives 1024, 1024.
C11_ValidateClampsThenFloors ==
    validated.calls >= 1
    => (/\ IsFloor8Clamped(validated.width, validated.given[1])
        /\ IsFloor8Clamped(validated.height, validated.given[2])
        /\ validate_parameters(validated).width = validated.width
        /\ validate_parameters(validated).height = validated.height
        /\ validated.given = <<1025, 1030>> => (validated.width = 1024 /\ validated.height = 1024))

C11_Witness ==
    /\ validated.given = <<1025, 1030>>
    /\ validated.calls = MaxCalls
    /\ validated.width = 1024
    /\ validated.height = 1024

\* The answer to r's direct POST is a 200 with a JSON body.
DirectSuccess(r) ==
    /\ op[r] \in DirectOps \cup LegacyOps
    /\ submit_response[r].kind = "http"
    /\ submit_response[r].code = 200
    /\ submit_response[r].json

\* Entry e of a result refers to an image: it carries one of the service's
\* URLs.
IsImageReference(e) == e.url \in Urls

\* C12: every result returned to the caller satisfies: success implies at
\* least one image reference, and failure implies no image reference and a
\* non-empty error message, for every upstream response shape, a 2xx body
\* without any image field included.
C12_ResultInvariant ==
    \A r \in Reqs :
        /\ (op[r] \in DirectOps /\ pc[r] = "COMPLETED")
           => (/\ Len(result[r].images) >= 1
               /\ \A i \in DOMAIN result[r].images : IsImageReference(result[r].images[i]))
        /\ (op[r] \in DirectOps /\ pc[r] = "FAILED" /\ calls[r].submit = 1)
           => error[r].msg # <<>>
        /\ (op[r] \in LegacyOps /\ pc[r] = "COMPLETED")
           => (result[r].success /\ result[r].image_data # None)
        /\ (op[r] \in LegacyOps /\ pc[r] = "FAILED" /\ calls[r].submit = 1)
           => (~result[r].success /\ result[r].image_data = None /\ result[r].error # <<>>)

\* C13: normalizing a success body gives one image {url} per discovered
\* image: an `images` array of k entries (objects with url, or URL strings)
\* gives k images with those URLs in order, and a singular `image` field
\* (URL string or object with url) gives exactly one image with that URL.
C13_NormalizedImages ==
    \A r \in Reqs :
        (op[r] \in DirectOps /\ DirectSuccess(r) /\ Terminal(r))
        => LET b == submit_response[r].body
           IN  /\ (b.has_images /\ ~b.has_image
                   /\ \A i \in DOMAIN b.images : b.images[i].url # None)
                  => (/\ pc[r] = "COMPLETED"
                      /\ result[r].images = [i \in DOMAIN b.images |-> UrlImage(b.images[i].url)])
               /\ (b.has_image /\ ~b.has_images /\ b.image.url # None)
                  => (/\ pc[r] = "COMPLETED"
                      /\ result[r].images = <<UrlImage(b.image.url)>>)

\* C14: normalizing a success body without any recognizable image field
\* gives a result with zero images and a diagnostic: it never raises and
\* never makes up an image entry.
C14_NoImageFieldGivesNoImages ==
    \A r \in Reqs :
        (/\ DirectSuccess(r)
         /\ Terminal(r)
         /\ ~submit_response[r].body.has_images
         /\ ~submit_response[r].body.has_image)
        => IF op[r] \in DirectOps
           THEN pc[r] = "COMPLETED" /\ result[r].images = <<>>
           ELSE result[r].image_data = None /\ result[r].error # <<>>

\* The payload the builder of operation o makes of the arguments i.
PayloadOf(o, i) ==
    CASE o = "wan25_preview" ->
            Wan25Payload(i.size, i.aspect_ratio, i.reference_images, i.seed)
      [] o = "qwen_edit" -> QwenPayload(i.edit_type, i.mask)
      [] o = "product_shots" ->
            ProductShotsPayload(i.product_images, i.output_format, i.resolution)
      [] o = "generate" -> GeneratePayload(i.width, i.height, i.seed)
      [] o = "product_shoot" ->
            ProductShootPayload(CompressedImage(i.image, i.encoded_size))
      [] o = "generate_image" -> BuildPayload(i.family, i.width, i.height, i.seed)

NoCalls == [submit |-> 0, status |-> 0, result |-> 0, download |-> 0]

ImageRead(r) ==
    /\ op[r] = "product_shoot"
    /\ "image" \in DOMAIN inputs[r]
    /\ HasProductImage(inputs[r].product_images)
    /\ inputs[r].image.valid

\* The image request r puts in its payload.
SentImage(r) == payload[r].product_image[2]

\* C16: pre-processing never raises for a valid image; an RGBA, LA or P input
\* becomes RGB; an input whose longer side exceeds 2048 is scaled so that the
\* longer side is exactly 2048, the shorter side is within 1px of the
\* proportional value and both sides are at least 1; an input whose longer
\* side is at most 2048 keeps its dimensions.
C16_PreprocessingContract ==
    \A r \in Reqs :
        ImageRead(r) =>
            LET image == inputs[r].image
                longest == max(image.width, image.height)
                shortest == min(image.width, image.height)
            IN  /\ pc[r] = "POSTING"
                /\ image.mode \in {"RGBA", "LA", "P"} => SentImage(r).mode = "RGB"
                /\ longest > 2048 =>
                      LET out_long == max(SentImage(r).width, SentImage(r).height)
                          out_short == min(SentImage(r).width, SentImage(r).height)
                      IN  /\ out_long = 2048
                          /\ out_short * longest - shortest * 2048 <= longest
                          /\ shortest * 2048 - out_short * longest <= longest
                          /\ out_short >= 1
                /\ longest <= 2048 =>
                      /\ SentImage(r).width = image.width
                      /\ SentImage(r).height = image.height

\* The request r has recompressed its image and is about to post it.
Recompressed(r) == ImageRead(r) /\ pc[r] = "POSTING"

\* The qualities of `tried` at which the encoding fits in 1 MiB.
Fitting(encoded_size, tried) ==
    {i \in DOMAIN tried : encoded_size[tried[i]] <= 1048576}

\* The loop starts at 95 and lowers the quality by 10 only after an encoding
\* above 1 MiB; what it returns is never empty and never below quality 60; if
\* an encoding fits, it returns the first that does.
LoopContract(r) ==
    LET out == SentImage(r)
        encoded_size == inputs[r].encoded_size
    IN  /\ Len(out.tried) >= 1
        /\ out.tried[1] = 95
        /\ \A i \in 2..Len(out.tried) :
              /\ out.tried[i] = out.tried[i - 1] - 10
              /\ encoded_size[out.tried[i - 1]] > 1048576
        /\ out.size > 0
        /\ out.quality >= 60
        /\ Fitting(encoded_size, out.tried) # {} =>
              /\ out.quality = out.tried[Len(out.tried)]
              /\ Fitting(encoded_size, out.tried) = {Len(out.tried)}
              /\ out.size = encoded_size[out.quality]

\* C17 as stated: the loop contract, and when no encoding fits the returned
\* bytes are the encoding made at quality 60.
C17_ReturnsFloorEncoding ==
    \A r \in Reqs :
        Recompressed(r) =>
            /\ LoopContract(r)
            /\ Fitting(inputs[r].encoded_size, SentImage(r).tried) = {} =>
                  SentImage(r).quality = 60

\* C17, amended: the loop contract, and when no encoding fits the returned
\* bytes are the encoding made at quality 65, the last of the qualities 95,
\* 85, 75, 65 the loop tries.
C17_ReturnsLastTriedEncoding ==
    \A r \in Reqs :
        Recompressed(r) =>
            /\ LoopContract(r)
            /\ Fitting(inputs[r].encoded_size, SentImage(r).tried) = {} =>
                  /\ SentImage(r).tried = <<95, 85, 75, 65>>
                  /\ SentImage(r).quality = 65
                  /\ SentImage(r).size = inputs[r].encoded_size[65]

C17_Witness ==
    \E r \in Reqs :
        /\ Recompressed(r)
        /\ \A q \in Qualities : inputs[r].encoded_size[q] > 1048576
        /\ SentImage(r).quality = 65
        /\ SentImage(r).size > 1048576

\* C18: after a response with a code outside 2xx, the error message holds at
\* most 500 characters of the response's text, whatever the operation and
\* whether or not the body is JSON.
C18_EmbedsAtMost500 ==
    \A r \in Reqs :
        submit_response[r].kind = "http" /\ submit_response[r].code \notin 200..299
            => error[r].embedded <= 500

\* Everything the model keeps for request r.
Own(r) ==
    <<pc[r], op[r], payload[r], inputs[r], request_id[r], attempt[r],
      submit_response[r], status_response[r], result_response[r], result[r],
      error[r], calls[r], lastCall[r], polls_ok[r], job[r], image_url[r]>>

\* A queued request polls under its own identifier, and what its status
\* calls report and how it ends follow its own job: COMPLETED or FAILED is
\* reported to it only when its own job is so, after at least as many of its
\* own status calls as that job takes, and it times out only after
\* max_attempts status calls of its own.
OwnJobOnly(r) ==
    /\ Queued(r) =>
          /\ status_url(r) = IdOf(r)
          /\ request_id[r] = IdOf(r)
          /\ job[r] \in service
    /\ \A s \in {"COMPLETED", "FAILED"} :
          Reports(status_response[r], s) =>
              /\ job[r].outcome = s
              /\ calls[r].status >= job[r].at
    /\ pc[r] = "FETCHING" => Reports(status_response[r], "COMPLETED")
    /\ Queued(r) /\ pc[r] = "COMPLETED" => Reports(status_response[r], "COMPLETED")
    /\ Reports(status_response[r], "FAILED") =>
          /\ pc[r] = "FAILED"
          /\ Contains(error[r].msg, job[r].error)
    /\ pc[r] = "TIMED_OUT" => calls[r].status = max_attempts
    /\ calls[r].status <= max_attempts

\* A step of one request changes nothing of any other request.
StepOfOne ==
    \A r, q \in Reqs : r # q /\ Own(r)' # Own(r) => Own(q)' = Own(q)

\* C19: under every interleaving of two running requests, each request polls
\* under its own identifier, its poll count and outcome follow the answers
\* for its own job only, and a step of one request (its failing or timing
\* out included) changes nothing of the other.
C19_RequestsIsolated ==
    /\ [](\A r \in Reqs : OwnJobOnly(r))
    /\ [][StepOfOne]_vars

C19_Witness ==
    /\ pc[2] = "TIMED_OUT"
    /\ calls[2].status = max_attempts
    /\ pc[1] = "COMPLETED"
    /\ Queued(1)
    /\ calls[1].status = 2
    /\ job[1].outcome = "COMPLETED"
    /\ job[2].outcome = "FAILED"

\* C20: when every awaited call returns or fails in finite time, every
\* request that was started ends in one of COMPLETED, FAILED and TIMED_OUT
\* and stays there; none stays in its submit or in its poll loop for ever.
C20_EventuallyTerminal ==
    \A r \in Reqs : [](pc[r] # "IDLE" => <>[]Terminal(r))

C20_Witness ==
    \E r \in Reqs :
        /\ Queued(r)
        /\ pc[r] = "TIMED_OUT"
        /\ attempt[r] = max_attempts - 1
        /\ calls[r].status = max_attempts
        /\ calls[r].result = 0

\* C21: COMPLETED, FAILED and TIMED_OUT are terminal: no step changes
\* anything of a request that has reached one of them, so it issues no
\* further submit, status or result call.
C21_TerminalIsFinal ==
    [][\A r \in Reqs : Terminal(r) => Own(r)' = Own(r)]_vars

C21_Witness ==
    /\ pc[2] = "FAILED"
    /\ Reports(status_response[2], "FAILED")
    /\ calls[2].status = max_attempts - 1
    /\ pc[1] = "POLLING"
    /\ calls[1].status = 3

\* The last call of request r raised: no answer, a submit answered outside
\* 2xx, or a body that is not JSON where JSON is read.
LastCallRaised(r) ==
    \/ lastCall[r] = "submit" /\ submit_response[r].kind = "transport"
    \/ lastCall[r] = "submit" /\ submit_response[r].kind = "http"
          /\ (~IsSuccess(submit_response[r].code) \/ ~submit_response[r].json)
    \/ lastCall[r] = "status" /\ status_response[r].kind = "transport"
    \/ lastCall[r] = "result" /\ result_response[r].kind = "transport"
    \/ lastCall[r] = "result" /\ ~result_response[r].json

\* C22: one request issues at most one submit call, at most 60 status calls
\* (one per iteration of the poll loop) and at most one result fetch, and a
\* call that raised is the request's last call: the request has failed.
C22_CallsBounded ==
    \A r \in Reqs :
        /\ calls[r].submit <= 1
        /\ calls[r].status <= 60
        /\ calls[r].result <= 1
        /\ op[r] \in ExtendedOps /\ pc[r] \in {"WAITING", "POLLING"}
              => calls[r].status = attempt[r]
        /\ op[r] \in ExtendedOps /\ LastCallRaised(r) => pc[r] = "FAILED"

C22_Witness ==
    \E r \in Reqs :
        /\ pc[r] = "COMPLETED"
        /\ calls[r] = [submit |-> 1, status |-> 60, result |-> 1, download |-> 0]

\* C23: a result fetch is issued only after a status poll of the same
\* request answered COMPLETED, never after a FAILED status or a timeout, and
\* the status and result calls use the identifier of the request's own
\* submit response.
C23_FetchOnlyAfterCompleted ==
    \A r \in Reqs :
        /\ calls[r].result > 0 \/ pc[r] = "FETCHING"
              => /\ Reports(status_response[r], "COMPLETED")
                 /\ job[r].outcome = "COMPLETED"
        /\ Reports(status_response[r], "FAILED") \/ pc[r] = "TIMED_OUT"
              => calls[r].result = 0
        /\ calls[r].status > 0 \/ calls[r].result > 0
              => /\ submit_response[r].body.request_id # NoId
                 /\ status_url(r) = submit_response[r].body.request_id
                 /\ result_url(r) = submit_response[r].body.request_id

C23_Witness ==
    /\ pc[1] = "COMPLETED"
    /\ calls[1].result = 1
    /\ calls[1].status = 4
    /\ status_url(1) = IdOf(1)
    /\ pc[2] = "FAILED"
    /\ calls[2].result = 0

\* The last status answer of request r has a 2xx code and a JSON body whose
\* status is neither COMPLETED nor FAILED.
NotYetReady(r) ==
    /\ status_response[r].kind = "http"
    /\ IsSuccess(status_response[r].code)
    /\ status_response[r].json
    /\ status_response[r].body.status \notin {"COMPLETED", "FAILED"}

\* C24: a 2xx status answer whose status is neither COMPLETED nor FAILED
\* leaves the request in its poll loop: no result fetch is issued, and the
\* request ends on that poll only when it was the 60th, by timing out.
C24_OtherStatusKeepsPolling ==
    \A r \in Reqs :
        NotYetReady(r) =>
            /\ calls[r].result = 0
            /\ pc[r] \in {"WAITING", "POLLING", "TIMED_OUT"}
            /\ pc[r] = "TIMED_OUT" <=> calls[r].status = 60

C24_Witness ==
    \E r \in Reqs :
        /\ NotYetReady(r)
        /\ status_response[r].body.status = None
        /\ status_response[r].code = 200
        /\ pc[r] = "WAITING"
        /\ attempt[r] = 1

\* A status call of request r starts from the end of a wait, the wait starts
\* only where an iteration of the loop starts and issues no call, and no
\* call leaves the request at the end of a wait.
WaitBeforeStatus(r) ==
    /\ calls'[r].status # calls[r].status => pc[r] = "POLLING" /\ pc'[r] # "POLLING"
    /\ pc'[r] = "POLLING" /\ pc[r] # "POLLING"
          => pc[r] = "WAITING" /\ calls'[r] = calls[r]
    /\ calls'[r] # calls[r] => pc'[r] # "POLLING"

\* C25: every status call is preceded by one wait, after the submit as after
\* a status call, and while a request waits the other running requests can
\* take their steps.
C25_WaitBeforeEveryStatus ==
    /\ [][\A r \in Reqs : WaitBeforeStatus(r)]_vars
    /\ [](\A r, q \in Reqs :
             r # q /\ pc[r] = "WAITING" /\ pc[q] \notin {"IDLE", "COMPLETED", "FAILED", "TIMED_OUT"}
                 => ENABLED ConcStep(q))

C25_Witness ==
    /\ pc[1] = "WAITING"
    /\ calls[1].status = 1
    /\ attempt[1] = 1
    /\ pc[2] = "FETCHING"

\* C26: in every payload builder that takes a seed, the payload has `seed`
\* exactly when a seed is given and is not -1, and then it is the given seed:
\* 0 is sent like any other integer, and no seed or -1 adds no field.
C26_SeedSentUnlessSentinel ==
    \A r \in Reqs :
        (/\ pc[r] \in {"SUBMITTING", "POSTING"}
         /\ "seed" \in DOMAIN inputs[r])
        => LET seed == inputs[r].seed
           IN  /\ "seed" \in DOMAIN payload[r] <=> (seed.given /\ seed.value # -1)
               /\ "seed" \in DOMAIN payload[r] => payload[r].seed = seed.value

\* The fields every edit payload has, and the fields the claim gives each
\* edit type.
BaseFields ==
    {"image", "prompt", "text_prompt", "instruction", "edit_mode", "strength",
     "coherence_factor", "auto_detect_region", "preserve_original_style"}

TypeFields(edit_type) ==
    CASE edit_type = "object_removal" -> [inpaint_mode |-> "remove", edge_blend |-> "0.2"]
      [] edit_type = "object_replacement" -> [inpaint_mode |-> "replace", context_aware |-> TRUE]
      [] edit_type = "background_change" -> [segment_mode |-> "background", blend_edges |-> TRUE]
      [] edit_type = "style_transfer" ->
            [style_preservation |-> "0.3", content_preservation |-> "0.7"]
      [] edit_type = "color_adjustment" -> [color_mode |-> "adaptive", preserve_luminance |-> TRUE]
      [] OTHER -> <<>>

\* The edit request r has built its payload.
EditBuilt(r) == pc[r] = "SUBMITTING" /\ op[r] = "qwen_edit"

\* C27: the edit payload has the base fields with their base values
\* (edit_mode is the given edit type), `mask` exactly when a mask is given,
\* and the fixed fields of the edit type when it is one of the five of the
\* table; for any other edit type it has no further field.
C27_EditPayloadFromTable ==
    \A r \in Reqs :
        EditBuilt(r) =>
            LET edit_type == inputs[r].edit_type
                mask == inputs[r].mask
                extra == TypeFields(edit_type)
            IN  /\ DOMAIN payload[r] =
                      BaseFields \cup (IF mask # None THEN {"mask"} ELSE {}) \cup DOMAIN extra
                /\ payload[r].edit_mode = edit_type
                /\ payload[r].image = "imgA"
                /\ payload[r].instruction = "make it red"
                /\ payload[r].prompt = "make it red"
                /\ payload[r].text_prompt = "make it red"
                /\ payload[r].strength = "0.8"
                /\ payload[r].coherence_factor = "0.9"
                /\ payload[r].auto_detect_region = TRUE
                /\ payload[r].preserve_original_style = FALSE
                /\ mask # None => payload[r].mask = mask
                /\ \A k \in DOMAIN extra : payload[r][k] = extra[k]

C27_Witness ==
    \E r \in Reqs :
        /\ EditBuilt(r)
        /\ inputs[r].edit_type = "sharpen"
        /\ inputs[r].mask # None
        /\ DOMAIN payload[r] = BaseFields \cup {"mask"}

\* The base size the claim gives an output format, and the multiplier it
\* gives a resolution, in eighths (1.875 = 15/8, 3.75 = 30/8, 1 = 8/8).
BaseSize(output_format) ==
    CASE output_format = "square" -> <<1024, 1024>>
      [] output_format = "portrait" -> <<768, 1024>>
      [] output_format = "landscape" -> <<1024, 768>>
      [] output_format = "banner" -> <<1920, 1080>>
      [] output_format = "story" -> <<1080, 1920>>
      [] OTHER -> <<1024, 1024>>

Eighths(resolution) ==
    CASE resolution = "1920" -> 15
      [] resolution = "3840" -> 30
      [] OTHER -> 8

\* The product-shots request r has built its payload.
ShotsBuilt(r) == pc[r] = "SUBMITTING" /\ op[r] = "product_shots"

\* C28: the output size of generate_product_shots is (floor(bw * m),
\* floor(bh * m)) for the base size (bw, bh) of the output format, 1024x1024
\* for an unknown format, and m = 1.875 for resolution 1920, 3.75 for 3840
\* and 1 for any other resolution.
C28_OutputSizeFromTable ==
    \A r \in Reqs :
        ShotsBuilt(r) =>
            LET base == BaseSize(inputs[r].output_format)
                m == Eighths(inputs[r].resolution)
            IN  /\ payload[r].output.width = (base[1] * m) \div 8
                /\ payload[r].output.height = (base[2] * m) \div 8

C28_Witness ==
    \E r \in Reqs :
        /\ ShotsBuilt(r)
        /\ inputs[r].output_format = "story"
        /\ inputs[r].resolution = "1920"
        /\ payload[r].output.width = 2025
        /\ payload[r].output.height = 3600

\* A URL is set on the image.
UrlSet(image) == image.url \notin {None, ""}

\* v is a base64 data URI of an image.
IsDataURI(v) == v.type = "str" /\ v.prefix \in {"data:image/png;base64,", "data:image/jpeg;base64,"}

\* The path of the image names a file that cannot be opened.
Unreadable(image) == image.path \notin {None, ""} /\ image.path \notin DOMAIN Disk

\* C29: to_fal_format gives {url: u} whenever a URL u is set, whatever path
\* and data are, and a base64 data URI of an image whenever no URL is set,
\* whatever path and data are (a path that cannot be opened set aside).
C29_UrlOrDataURI ==
    converted.calls >= 1
    => (/\ UrlSet(converted.image)
           => converted.out = [kind |-> "url", value |-> converted.image.url]
        /\ ~UrlSet(converted.image) /\ ~Unreadable(converted.image)
           => (converted.out.kind = "data" /\ IsDataURI(converted.out.value)))

\* C30: under every interleaving of concurrent save_image calls, no two
\* gallery entries have the same id or the same filename, and no stored
\* image file is written by more than one save.
C30_GalleryEntriesDistinct ==
    /\ \A i, j \in DOMAIN metadata :
          i # j => /\ metadata[i].id # metadata[j].id
                   /\ metadata[i].filename # metadata[j].filename
    /\ \A f \in DOMAIN files : Len(files[f]) <= 1

====
